---- MODULE Spec2Model ----
(***************************************************************************)
(* Symbolic hardware plugin: the descriptor factory, the descriptor        *)
(* registry (SymbolicHardware) and the host device-model bridge            *)
(* (isa_symbhw_init, pci_symbhw_init, pci_symbhw_uninit).                   *)
(*                                                                         *)
(* A configuration value is a record [ok, v]: ok is the success flag the   *)
(* ConfigFile getters report, v the value read (the getter's default when  *)
(* the key is absent).  A descriptor object is a record whose obj field is *)
(* the identity of the heap object (one `new` per configuration key).      *)
(***************************************************************************)
EXTENDS Integers, Sequences, FiniteSets, TLC

\* ------------------------------------------------------------------------
\* Bounds of the model
\* ------------------------------------------------------------------------
MaxDevices ==
  2

MaxResKeys ==
  7

MaxInstances ==
  2

MaxFirings ==
  2

MaxTraps ==
  1

\* ------------------------------------------------------------------------
\* Program constants
\* ------------------------------------------------------------------------
IsaMaxPortBase ==
  65535

IsaPortSpace ==
  65536

IsaMaxIrq ==
  15

PciMaxClassCode ==
  16777215

PciMaxInterruptPin ==
  4

PciMaxResources ==
  6

\* storage widths of the locals the configured integers are narrowed to
UInt16 ==
  65536

UInt8 ==
  256

PCI_BASE_ADDRESS_SPACE_IO ==
  1

PCI_BASE_ADDRESS_SPACE_MEMORY ==
  0

PCI_BASE_ADDRESS_MEM_PREFETCH ==
  8

PCI_HEADER_TYPE_NORMAL ==
  0

\* ------------------------------------------------------------------------
\* Configuration values
\* ------------------------------------------------------------------------
Val(x) ==
  [ok |-> TRUE, v |-> x]

NoInt ==
  [ok |-> FALSE, v |-> 0]

\* a configured integer of 2^32 or more, hi * 2^32 + lo with lo < 2^31: the
\* int64_t that getInt returns, in two limbs; v is what uint32_t storage
\* keeps of it (the value modulo 2^32)
Wide(hi, lo) ==
  [ok |-> TRUE, v |-> lo, hi |-> hi]

\* the limb above 2^32 of a configured integer (0 for the values of Val)
HighLimb(f) ==
  IF "hi" \in DOMAIN f THEN f.hi ELSE 0

NoStr ==
  [ok |-> FALSE, v |-> ""]

NoBool ==
  [ok |-> FALSE, v |-> FALSE]

NoList ==
  [ok |-> FALSE, v |-> <<>>]

NULL ==
  [kind |-> "NULL"]

\* the strict weak order std::set<DeviceDescriptor*, comparator> sorts by:
\* the ids, as strings
IdRank(id) ==
  CASE id = ""  -> 0
    [] id = "a" -> 1
    [] id = "b" -> 2
    [] OTHER    -> 3

comparator(dd1, dd2) ==
  IdRank(dd1.m_id) < IdRank(dd2.m_id)

\* ------------------------------------------------------------------------
\* IsaDeviceDescriptor::create
\* ------------------------------------------------------------------------
IsaDeviceDescriptor_new(key, id, r) ==
  [kind |-> "isa", obj |-> key, m_id |-> id, m_isaResource |-> r]

IsaDeviceDescriptor_create(e, key) ==
  LET start == e.start.v               \* uint64_t start
      size  == e.size.v % UInt16       \* uint16_t size
      irq   == e.irq.v % UInt8         \* uint8_t irq
  IN  IF ~e.start.ok \/ start > IsaMaxPortBase THEN NULL
      ELSE IF ~e.size.ok THEN NULL
      ELSE IF start + size > IsaPortSpace THEN NULL
      ELSE IF ~e.irq.ok \/ irq > IsaMaxIrq THEN NULL
      ELSE IsaDeviceDescriptor_new(key, e.id.v,
             [portBase |-> start % UInt16, portSize |-> size, irq |-> irq])

\* ------------------------------------------------------------------------
\* PciDeviceDescriptor::create
\* classCode and the resource sizes are stored in uint32_t: of a configured
\* integer that storage keeps the low limb v and drops HighLimb.
\* ------------------------------------------------------------------------
PciResource(isIo, prefetchable, size) ==
  [isIo |-> isIo, prefetchable |-> prefetchable, size |-> size]

\* the foreach2 loop over resKeys: [ok |-> FALSE] at the first resource that
\* fails a gate (return NULL), the vector of resources pushed otherwise
RECURSIVE ReadResources(_, _, _)
ReadResources(resKeys, i, resources) ==
  IF i > Len(resKeys) THEN Val(resources)
  ELSE LET rk == resKeys[i]
       IN  IF ~rk.isIo.ok THEN NoList
           ELSE IF ~rk.isPrefetchable.ok /\ ~rk.isIo.v THEN NoList
           ELSE IF ~rk.size.ok THEN NoList
           ELSE ReadResources(resKeys, i + 1,
                  Append(resources,
                         PciResource(rk.isIo.v, rk.isPrefetchable.v, rk.size.v)))

PciDeviceDescriptor_new(key, id, vid, pid, classCode, revisionId, interruptPin, resources) ==
  [kind |-> "pci", obj |-> key, m_id |-> id, m_vid |-> vid, m_pid |-> pid,
   m_classCode |-> classCode, m_revisionId |-> revisionId,
   m_interruptPin |-> interruptPin, m_resources |-> resources]

\* variant: the upper bound on the resource count is dropped
PciDeviceDescriptor_create_noLimit(e, key) ==
  LET vid          == e.vid.v % UInt16
      pid          == e.pid.v % UInt16
      classCode    == e.classCode.v
      revisionId   == e.revisionId.v % UInt8
      interruptPin == e.interruptPin.v % UInt8
      resources    == ReadResources(e.resources.v, 1, <<>>)
  IN  IF ~e.vid.ok THEN NULL
      ELSE IF ~e.pid.ok THEN NULL
      ELSE IF ~e.classCode.ok \/ classCode > PciMaxClassCode THEN NULL
      ELSE IF ~e.revisionId.ok THEN NULL
      ELSE IF ~e.interruptPin.ok \/ interruptPin > PciMaxInterruptPin THEN NULL
      ELSE IF ~e.resources.ok \/ e.resources.v = <<>> THEN NULL
      ELSE IF ~resources.ok THEN NULL
      ELSE PciDeviceDescriptor_new(key, e.id.v, vid, pid, classCode,
                                   revisionId, interruptPin, resources.v)

PciDeviceDescriptor_create(e, key) ==
  LET vid          == e.vid.v % UInt16           \* uint16_t vid
      pid          == e.pid.v % UInt16           \* uint16_t pid
      classCode    == e.classCode.v              \* uint32_t classCode
      revisionId   == e.revisionId.v % UInt8     \* uint8_t revisionId
      interruptPin == e.interruptPin.v % UInt8   \* uint8_t interruptPin
      resources    == ReadResources(e.resources.v, 1, <<>>)
  IN  IF ~e.vid.ok THEN NULL
      ELSE IF ~e.pid.ok THEN NULL
      ELSE IF ~e.classCode.ok \/ classCode > PciMaxClassCode THEN NULL
      ELSE IF ~e.revisionId.ok THEN NULL
      ELSE IF ~e.interruptPin.ok \/ interruptPin > PciMaxInterruptPin THEN NULL
      ELSE IF ~e.resources.ok \/ e.resources.v = <<>> THEN NULL
      ELSE IF ~resources.ok THEN NULL
      ELSE IF Len(resources.v) > PciMaxResources THEN NULL
      ELSE PciDeviceDescriptor_new(key, e.id.v, vid, pid, classCode,
                                   revisionId, interruptPin, resources.v)

\* ------------------------------------------------------------------------
\* DeviceDescriptor::create
\* ------------------------------------------------------------------------
DeviceDescriptor_create(e, key) ==
  IF ~e.id.ok \/ e.id.v = "" THEN NULL
  ELSE IF ~e.type.ok \/ (e.type.v # "pci" /\ e.type.v # "isa") THEN NULL
  ELSE IF e.type.v = "isa" THEN IsaDeviceDescriptor_create(e, key)
  ELSE PciDeviceDescriptor_create(e, key)

\* ------------------------------------------------------------------------
\* Configuration entries the model draws its inputs from
\* ------------------------------------------------------------------------
IsaEntry(id, start, size, irq) ==
  [id |-> id, type |-> Val("isa"), start |-> start, size |-> size, irq |-> irq,
   vid |-> NoInt, pid |-> NoInt, classCode |-> NoInt, revisionId |-> NoInt,
   interruptPin |-> NoInt, resources |-> NoList]

PciEntry(id, vid, pid, classCode, revisionId, interruptPin, resources) ==
  [id |-> id, type |-> Val("pci"), start |-> NoInt, size |-> NoInt, irq |-> NoInt,
   vid |-> vid, pid |-> pid, classCode |-> classCode, revisionId |-> revisionId,
   interruptPin |-> interruptPin, resources |-> resources]

ResKey(isIo, isPrefetchable, size) ==
  [isIo |-> isIo, isPrefetchable |-> isPrefetchable, size |-> size]

MemRes ==
  ResKey(Val(FALSE), Val(FALSE), Val(4096))

MemPrefetchRes ==
  ResKey(Val(FALSE), Val(TRUE), Val(8192))

IoRes ==
  ResKey(Val(TRUE), NoBool, Val(256))

IoPrefetchRes ==
  ResKey(Val(TRUE), Val(TRUE), Val(64))

BadRes ==
  ResKey(Val(FALSE), NoBool, Val(4096))

Ids ==
  {"a", "b"}

Buses ==
  {"isa", "pci"}

\* the device lists of the registry's specification: two ISA and two PCI
\* devices over two ids, and one entry the factory rejects
MainEntries ==
  { IsaEntry(Val("a"), Val(768), Val(16), Val(7)),
    IsaEntry(Val("b"), Val(1008), Val(8), Val(5)),
    PciEntry(Val("a"), Val(4660), Val(22136), Val(512), Val(1), Val(1),
             Val(<<MemRes>>)),
    PciEntry(Val("b"), Val(32902), Val(4110), Val(131072), Val(2), Val(4),
             Val(<<IoRes, MemPrefetchRes>>)),
    [IsaEntry(Val("a"), Val(768), Val(16), Val(7)) EXCEPT !.type = Val("usb")] }

DeviceLists ==
  {NoList} \cup
  {Val(l) : l \in UNION {[1..n -> MainEntries] : n \in 0..MaxDevices}}

DefaultEntry ==
  IsaEntry(NoStr, NoInt, NoInt, NoInt)

\* ------------------------------------------------------------------------
\* State
\* ------------------------------------------------------------------------
VARIABLES
  cfg,            \* the device list of the configuration file: [ok, v]
  pc,             \* "start", "loop", "exited", "running", "crashed",
                  \* "destroyed"
  it,             \* position of initialize's loop in the list of keys
  built,          \* every descriptor object the factory returned
  m_devices,      \* SymbolicHardware::m_devices
  connected,      \* subscriptions to CorePlugin::onDeviceRegistration
  fired,          \* times the host emitted onDeviceRegistration
  initCount,      \* obj -> times initializeQemuDevice ran on the object
  qdev,           \* host device-type table: <<bus, name>> -> registrations
  inst,           \* host-owned device instances
  mmio_io_addr,   \* obj -> PciDeviceDescriptor::mmio_io_addr
  io_mem_used,    \* host: MMIO handles currently registered
  badUnregister,  \* host: cpu_unregister_io_memory was given a free handle
  debugLines,     \* lines the trap stubs wrote to the debug stream
  m_vmState,      \* obj -> PciDeviceDescriptor::m_vmState
  typeRecords,    \* host: the type records handed to *_qdev_register
  released,       \* obj -> host-side records the destructor released
  wildFree,       \* a destructor released a record nobody allocated
  entry,          \* factory specification: the configuration entry
  result,         \* factory specification: what create returned
  os,             \* factory specification: what print wrote to the stream
  fpc             \* factory specification: "idle", "done", "printed"

vars ==
  <<cfg, pc, it, built, m_devices, connected, fired, initCount, qdev, inst,
    mmio_io_addr, io_mem_used, badUnregister, debugLines, m_vmState,
    typeRecords, released, wildFree, entry, result, os, fpc>>

registryVars ==
  <<cfg, pc, it, built, m_devices, connected, fired, initCount, qdev, inst,
    mmio_io_addr, io_mem_used, badUnregister, debugLines, m_vmState,
    typeRecords, released, wildFree>>

hostRecVars ==
  <<m_vmState, typeRecords, released, wildFree>>

factoryVars ==
  <<entry, result, os, fpc>>

Objs ==
  1..MaxDevices

Slots ==
  1..MaxInstances

\* the host hands out device-state slots in order
NextSlot(i) ==
  \A j \in 1..(i - 1) : inst[j].state # "free"

\* host-side records a descriptor allocates, as counts per kind
NoRecords ==
  [info |-> 0, props |-> 0, vmsd |-> 0, fields |-> 0]

FreeInstance ==
  [state |-> "free", bus |-> "", name |-> "", desc |-> NULL, handle |-> 0,
   unreg |-> 0, config |-> <<>>, bars |-> <<>>, mapped |-> <<>>,
   ioports |-> {}, irq |-> -1]

\* values an int member nobody initialised can hold: no handle, or the bits
\* of a handle the host also hands out
Indeterminate ==
  {0, 1}

RegistryInit ==
  /\ pc = "start"
  /\ it = 0
  /\ built = {}
  /\ m_devices = {}
  /\ connected = 0
  /\ fired = 0
  /\ initCount = [o \in Objs |-> 0]
  /\ qdev = [k \in Buses \X Ids |-> 0]
  /\ inst = [i \in Slots |-> FreeInstance]
  /\ mmio_io_addr = [o \in Objs |-> 0]
  /\ io_mem_used = {}
  /\ badUnregister = FALSE
  /\ debugLines = 0
  /\ m_vmState = [o \in Objs |-> NULL]
  /\ typeRecords = {}
  /\ released = [o \in Objs |-> NoRecords]
  /\ wildFree = FALSE

FactoryIdle ==
  /\ entry = DefaultEntry
  /\ result = NULL
  /\ os = ""
  /\ fpc = "idle"

Init ==
  /\ cfg \in DeviceLists
  /\ RegistryInit
  /\ FactoryIdle

\* ------------------------------------------------------------------------
\* SymbolicHardware
\* ------------------------------------------------------------------------
Equivalent(dd1, dd2) ==
  ~comparator(dd1, dd2) /\ ~comparator(dd2, dd1)

\* variant: the container keeps equivalent keys (a multiset)
insert_keepAll(devices, dd) ==
  devices \cup {dd}

\* m_devices.insert(dd): a std::set ignores a key equivalent to one it holds
insert(devices, dd) ==
  IF \E d \in devices : Equivalent(d, dd) THEN devices ELSE devices \cup {dd}

\* variant: the lookup returns the first element that is not less than name
findDevice_lowerBound(devices, name) ==
  LET dd == [m_id |-> name]
      notLess == {d \in devices : ~comparator(d, dd)}
  IN  IF notLess = {} THEN NULL
      ELSE CHOOSE d \in notLess : \A x \in notLess : ~comparator(x, d)

findDevice(devices, name) ==
  LET dd == [m_id |-> name]
      found == {d \in devices : Equivalent(d, dd)}
  IN  IF found = {} THEN NULL ELSE CHOOSE d \in found : TRUE

\* variant: the emptiness test is missing, an empty list runs the loop
initialize_begin_noEmptyTest ==
  /\ pc = "start"
  /\ pc' = "loop"
  /\ it' = 1
  /\ UNCHANGED <<cfg, built, m_devices, connected, fired, initCount, qdev, inst,
                 mmio_io_addr, io_mem_used, badUnregister, factoryVars, debugLines, hostRecVars>>

initialize_begin ==
  /\ pc = "start"
  /\ IF ~cfg.ok \/ cfg.v = <<>>
       THEN pc' = "running" /\ it' = it
       ELSE pc' = "loop" /\ it' = 1
  /\ UNCHANGED <<cfg, built, m_devices, connected, fired, initCount, qdev, inst,
                 mmio_io_addr, io_mem_used, badUnregister, factoryVars, debugLines, hostRecVars>>

\* variant: a rejected entry is skipped (continue) instead of exit(-1)
initialize_loop_skipRejected ==
  /\ pc = "loop"
  /\ it <= Len(cfg.v)
  /\ LET dd == DeviceDescriptor_create(cfg.v[it], it)
     IN  /\ it' = it + 1
         /\ pc' = pc
         /\ built' = (IF dd = NULL THEN built ELSE built \cup {dd})
         /\ m_devices' = (IF dd = NULL THEN m_devices ELSE insert(m_devices, dd))
         /\ mmio_io_addr' = mmio_io_addr
  /\ UNCHANGED <<cfg, connected, fired, initCount, qdev, inst,
                 io_mem_used, badUnregister, factoryVars, debugLines, hostRecVars>>

initialize_loop ==
  /\ pc = "loop"
  /\ it <= Len(cfg.v)
  /\ LET dd == DeviceDescriptor_create(cfg.v[it], it)
     IN  IF dd = NULL
           THEN /\ pc' = "exited"
                /\ UNCHANGED <<it, built, m_devices, mmio_io_addr>>
           ELSE /\ built' = built \cup {dd}
                /\ m_devices' = insert(m_devices, dd)
                /\ it' = it + 1
                /\ pc' = pc
                /\ IF dd.kind = "pci"
                     THEN \E g \in Indeterminate :
                            mmio_io_addr' = [mmio_io_addr EXCEPT ![dd.obj] = g]
                     ELSE mmio_io_addr' = mmio_io_addr
  /\ UNCHANGED <<cfg, connected, fired, initCount, qdev, inst,
                 io_mem_used, badUnregister, factoryVars, debugLines, hostRecVars>>

initialize_connect ==
  /\ pc = "loop"
  /\ it > Len(cfg.v)
  /\ connected' = connected + 1
  /\ pc' = "running"
  /\ UNCHANGED <<cfg, it, built, m_devices, fired, initCount, qdev, inst,
                 mmio_io_addr, io_mem_used, badUnregister, factoryVars, debugLines, hostRecVars>>

\* variant: the loop starts at the second element of the set
onDeviceRegistration_skipFirst(devices, counts) ==
  LET first == CHOOSE d \in devices : \A x \in devices : ~comparator(x, d)
  IN  [o \in DOMAIN counts |->
         IF \E d \in devices \ {first} : d.obj = o THEN counts[o] + 1 ELSE counts[o]]

\* the loop of onDeviceRegistration: initializeQemuDevice once on every
\* element of m_devices
onDeviceRegistration(devices, counts) ==
  [o \in DOMAIN counts |->
     IF \E d \in devices : d.obj = o THEN counts[o] + 1 ELSE counts[o]]

\* isa_qdev_register / pci_qdev_register of every element's type record
qdev_register(devices, table) ==
  [k \in DOMAIN table |->
     table[k] + Cardinality({d \in devices : <<d.kind, d.m_id>> = k})]

\* new VMStateDescription() with its name and versions set; nothing assigns
\* its fields member
VMStateDescription(d) ==
  [kind |-> "VMStateDescription", name |-> d.m_id, version_id |-> 3,
   fields |-> "NULL"]

\* the record initializeQemuDevice fills in and hands to the host; schemas
\* holds every descriptor's m_vmState as it is when the record is filled in
TypeRecord(d, schemas) ==
  IF d.kind = "isa"
    THEN [bus |-> "isa", name |-> d.m_id, init |-> "isa_symbhw_init",
          exit |-> "NULL", vmsd |-> NULL]
    ELSE [bus |-> "pci", name |-> d.m_id, init |-> "pci_symbhw_init",
          exit |-> "pci_symbhw_uninit", vmsd |-> schemas[d.obj]]

\* m_vmState after PciDeviceDescriptor::initializeQemuDevice ran on every
\* PCI element of devices
AllocateSchemas(devices, schemas) ==
  [o \in DOMAIN schemas |->
     IF \E d \in devices : d.obj = o /\ d.kind = "pci"
       THEN VMStateDescription(CHOOSE d \in devices : d.obj = o)
       ELSE schemas[o]]

\* the host emits the device-registration event; every subscriber runs
deviceRegistration ==
  /\ pc = "running"
  /\ fired < MaxFirings
  /\ fired' = fired + 1
  /\ IF connected > 0
       THEN /\ initCount' = onDeviceRegistration(m_devices, initCount)
            /\ qdev' = qdev_register(m_devices, qdev)
            /\ typeRecords' = typeRecords \cup
                                {TypeRecord(d, m_vmState) : d \in m_devices}
            /\ m_vmState' = AllocateSchemas(m_devices, m_vmState)
       ELSE UNCHANGED <<initCount, qdev, typeRecords, m_vmState>>
  /\ UNCHANGED <<cfg, pc, it, built, m_devices, connected, inst,
                 mmio_io_addr, io_mem_used, badUnregister, factoryVars,
                 debugLines, released, wildFree>>

\* ------------------------------------------------------------------------
\* Host device-model bridge
\* An instance slot is used once: free -> inited -> dead (PCI), or faulted
\* when init dereferences a null back-reference.  config holds the arguments
\* init passes to the pci_config_set_* calls, bars the arguments of
\* pci_register_bar in call order (BAR index = position - 1), mapped the
\* routing the last pci_symbhw_map call set up for each BAR.
\* ------------------------------------------------------------------------
\* cpu_register_io_memory: the host hands out the lowest free handle
cpu_register_io_memory(used) ==
  CHOOSE h \in 1..(Cardinality(used) + 1) :
    h \notin used /\ \A k \in 1..(h - 1) : k \in used

\* the six register_ioport_read/write calls over one port range
register_ioports(addr, size) ==
  {[addr |-> addr, size |-> size, width |-> w, dir |-> d] :
     w \in {1, 2, 4}, d \in {"read", "write"}}

\* what the uninitialised member isa->desc can hold when init reads it
IndeterminateDesc ==
  {NULL} \cup {d \in built : d.kind = "isa"}

isa_symbhw_init(i, name, garbage) ==
  /\ pc = "running"
  /\ inst[i].state = "free"
  /\ NextSlot(i)
  /\ qdev[<<"isa", name>>] > 0
  /\ garbage \in IndeterminateDesc
  /\ LET s == garbage                  \* IsaDeviceDescriptor *s = isa->desc
     IN  IF s = NULL
           THEN /\ pc' = "crashed"
                /\ inst' = [inst EXCEPT ![i] =
                     [FreeInstance EXCEPT !.state = "faulted", !.bus = "isa",
                                          !.name = name]]
           ELSE /\ pc' = pc
                /\ inst' = [inst EXCEPT ![i] =
                     [FreeInstance EXCEPT
                        !.state = "inited", !.bus = "isa", !.name = name,
                        !.desc = s,
                        !.ioports = register_ioports(s.m_isaResource.portBase,
                                                     s.m_isaResource.portSize),
                        !.irq = s.m_isaResource.irq]]
  /\ UNCHANGED <<cfg, it, built, m_devices, connected, fired, initCount, qdev,
                 mmio_io_addr, io_mem_used, badUnregister, factoryVars, debugLines, hostRecVars>>

\* a BAR the host has not placed yet
NoMapping ==
  [addr |-> -1, pio |-> {}, mmio |-> 0, live |-> TRUE]

\* variant: the address-space bit is set for memory resources, not I/O ones
BarType_swapped(res) ==
  (IF res.isIo THEN PCI_BASE_ADDRESS_SPACE_MEMORY ELSE PCI_BASE_ADDRESS_SPACE_IO)
  + (IF res.prefetchable THEN PCI_BASE_ADDRESS_MEM_PREFETCH ELSE 0)

\* the type argument of pci_register_bar for one resource
BarType(res) ==
  (IF res.isIo THEN PCI_BASE_ADDRESS_SPACE_IO ELSE PCI_BASE_ADDRESS_SPACE_MEMORY)
  + (IF res.prefetchable THEN PCI_BASE_ADDRESS_MEM_PREFETCH ELSE 0)

\* dd->mmio_io_addr = cpu_register_io_memory(...)
RecordHandle(addrs, dd, handle) ==
  [addrs EXCEPT ![dd.obj] = handle]

pci_symbhw_init(i, name) ==
  /\ pc = "running"
  /\ inst[i].state = "free"
  /\ NextSlot(i)
  /\ qdev[<<"pci", name>>] > 0
  /\ LET dd == findDevice(m_devices, name)
         handle == cpu_register_io_memory(io_mem_used)
     IN  IF dd = NULL                    \* assert(dd)
           THEN /\ pc' = "crashed"
                /\ UNCHANGED <<inst, mmio_io_addr, io_mem_used>>
           ELSE /\ pc' = pc
                /\ inst' = [inst EXCEPT ![i] =
                     [FreeInstance EXCEPT
                        !.state = "inited", !.bus = "pci", !.name = name,
                        !.desc = dd,
                        !.config = [vendor_id |-> dd.m_vid,
                                    device_id |-> dd.m_pid,
                                    class |-> dd.m_classCode,
                                    header_type |-> PCI_HEADER_TYPE_NORMAL,
                                    interrupt_pin |-> dd.m_interruptPin],
                        !.bars = [k \in 1..Len(dd.m_resources) |->
                                    [region_num |-> k - 1,
                                     size |-> dd.m_resources[k].size,
                                     type |-> BarType(dd.m_resources[k]),
                                     map_func |-> "pci_symbhw_map"]],
                        !.mapped = [k \in 1..Len(dd.m_resources) |-> NoMapping],
                        !.handle = handle]]
                /\ io_mem_used' = io_mem_used \cup {handle}
                /\ mmio_io_addr' = RecordHandle(mmio_io_addr, dd, handle)
  /\ UNCHANGED <<cfg, it, built, m_devices, connected, fired, initCount, qdev,
                 badUnregister, factoryVars, debugLines, hostRecVars>>

\* variant: teardown of an instance also removes its descriptor from the set
pci_symbhw_uninit_dropsDescriptor(i) ==
  /\ pc = "running"
  /\ inst[i].state = "inited"
  /\ inst[i].bus = "pci"
  /\ LET handle == mmio_io_addr[inst[i].desc.obj]
     IN  /\ io_mem_used' = io_mem_used \ {handle}
         /\ badUnregister' = (badUnregister \/ handle \notin io_mem_used)
         /\ inst' = [inst EXCEPT ![i].state = "dead", ![i].unreg = handle,
                                  ![i].mapped = [k \in DOMAIN @ |-> NoMapping]]
         /\ m_devices' = m_devices \ {inst[i].desc}
  /\ UNCHANGED <<cfg, pc, it, built, connected, fired, initCount,
                 qdev, mmio_io_addr, factoryVars, debugLines, hostRecVars>>

pci_symbhw_uninit(i) ==
  /\ pc = "running"
  /\ inst[i].state = "inited"
  /\ inst[i].bus = "pci"
  /\ LET handle == mmio_io_addr[inst[i].desc.obj]   \* d->desc->mmio_io_addr
     IN  /\ io_mem_used' = io_mem_used \ {handle}
         /\ badUnregister' = (badUnregister \/ handle \notin io_mem_used)
         /\ inst' = [inst EXCEPT ![i].state = "dead", ![i].unreg = handle,
                                  ![i].mapped = [k \in DOMAIN @ |-> NoMapping]]
  /\ UNCHANGED <<cfg, pc, it, built, m_devices, connected, fired, initCount,
                 qdev, mmio_io_addr, factoryVars, debugLines, hostRecVars>>

\* x & y on non-negative integers
RECURSIVE BitAnd(_, _)
BitAnd(x, y) ==
  IF x = 0 \/ y = 0 THEN 0
  ELSE (x % 2) * (y % 2) + 2 * BitAnd(x \div 2, y \div 2)

\* base addresses the host's bus enumeration places a BAR at
MapAddrs ==
  {49152, 53248}

\* the host places, or moves, BAR k of instance i at addr; size and type are
\* those the BAR was registered with
pci_symbhw_map(i, k, addr) ==
  /\ pc = "running"
  /\ inst[i].state = "inited"
  /\ inst[i].bus = "pci"
  /\ k \in 1..Len(inst[i].bars)
  /\ addr \in MapAddrs
  /\ addr # inst[i].mapped[k].addr
  /\ LET size == inst[i].bars[k].size
         type == inst[i].bars[k].type
         s    == inst[i]
         isIo  == BitAnd(type, PCI_BASE_ADDRESS_SPACE_IO) # 0
         isMem == BitAnd(type, PCI_BASE_ADDRESS_SPACE_MEMORY) # 0
         handle == mmio_io_addr[s.desc.obj]          \* s->desc->mmio_io_addr
     IN  inst' = [inst EXCEPT ![i].mapped[k] =
           [addr |-> addr,
            pio  |-> IF isIo THEN register_ioports(addr, size) ELSE {},
            mmio |-> IF isMem THEN handle ELSE 0,
            live |-> isMem => handle \in io_mem_used]]
  /\ UNCHANGED <<cfg, pc, it, built, m_devices, connected, fired, initCount,
                 qdev, mmio_io_addr, io_mem_used, badUnregister, factoryVars, debugLines, hostRecVars>>

\* the registrations that route a port access to the stubs of instance i
PortRoutes(i) ==
  inst[i].ioports \cup UNION {inst[i].mapped[k].pio : k \in DOMAIN inst[i].mapped}

\* the port-I/O stub registered for a width and a direction
PortStub(width, dir) ==
  CASE width = 1 /\ dir = "read"  -> "symbhw_read8"
    [] width = 2 /\ dir = "read"  -> "symbhw_read16"
    [] width = 4 /\ dir = "read"  -> "symbhw_read32"
    [] width = 1 /\ dir = "write" -> "symbhw_write8"
    [] width = 2 /\ dir = "write" -> "symbhw_write16"
    [] width = 4 /\ dir = "write" -> "symbhw_write32"

MmioStubs ==
  {"symbhw_mmio_readb", "symbhw_mmio_readw", "symbhw_mmio_readl",
   "symbhw_mmio_writeb", "symbhw_mmio_writew", "symbhw_mmio_writel"}

\* the stubs the host can reach through what instance i has registered
ReachableStubs(i) ==
  {PortStub(r.width, r.dir) : r \in PortRoutes(i)}
  \cup (IF \E k \in DOMAIN inst[i].mapped :
             inst[i].mapped[k].mmio # 0 /\ inst[i].mapped[k].mmio \in io_mem_used
          THEN MmioStubs ELSE {})

\* a trap stub: one line to the debug stream (reads return 0), nothing else
symbhw_trap(i, fn) ==
  /\ pc = "running"
  /\ inst[i].state = "inited"
  /\ fn \in ReachableStubs(i)
  /\ debugLines < MaxTraps
  /\ debugLines' = debugLines + 1
  /\ UNCHANGED <<cfg, pc, it, built, m_devices, connected, fired, initCount,
                 qdev, inst, mmio_io_addr, io_mem_used, badUnregister, factoryVars,
                 hostRecVars>>

\* ------------------------------------------------------------------------
\* Teardown
\* ------------------------------------------------------------------------
\* the host-side records initializeQemuDevice allocated for d over n runs
Allocated(d, n) ==
  IF d.kind = "isa"
    THEN [info |-> n, props |-> n, vmsd |-> 0, fields |-> 0]
    ELSE [info |-> n, props |-> n, vmsd |-> n, fields |-> n]

\* ~IsaDeviceDescriptor after n runs of initializeQemuDevice: m_isaInfo is
\* NULL or the last record; m_isaProperties is the last array, or, when
\* initializeQemuDevice never ran, whatever the unassigned member holds
\* (nonNull says it is not a null pointer)
IsaDeviceDescriptor_dtor(n, nonNull) ==
  [info |-> IF n > 0 THEN 1 ELSE 0,
   props |-> IF n > 0 \/ nonNull THEN 1 ELSE 0,
   vmsd |-> 0, fields |-> 0]

\* ~PciDeviceDescriptor: the type record, the property array and the schema
\* when set; m_vmStateFields is not mentioned
PciDeviceDescriptor_dtor(n) ==
  [info |-> IF n > 0 THEN 1 ELSE 0,
   props |-> IF n > 0 THEN 1 ELSE 0,
   vmsd |-> IF n > 0 THEN 1 ELSE 0,
   fields |-> 0]

\* ~SymbolicHardware: delete on every element of m_devices; garbage gives,
\* per object, whether an unassigned m_isaProperties is non-null
SymbolicHardware_dtor(garbage) ==
  /\ pc = "running"
  /\ pc' = "destroyed"
  /\ released' = [o \in Objs |->
       IF \E d \in m_devices : d.obj = o
         THEN LET d == CHOOSE x \in m_devices : x.obj = o
              IN  IF d.kind = "isa"
                    THEN IsaDeviceDescriptor_dtor(initCount[o], garbage[o])
                    ELSE PciDeviceDescriptor_dtor(initCount[o])
         ELSE released[o]]
  /\ wildFree' = \E d \in m_devices :
                    d.kind = "isa" /\ initCount[d.obj] = 0 /\ garbage[d.obj]
  /\ UNCHANGED <<cfg, it, built, m_devices, connected, fired, initCount,
                 qdev, inst, mmio_io_addr, io_mem_used, badUnregister,
                 factoryVars, debugLines, m_vmState, typeRecords>>

Next ==
  \/ initialize_begin
  \/ initialize_loop
  \/ initialize_connect
  \/ deviceRegistration
  \/ \E i \in Slots, name \in Ids, garbage \in IndeterminateDesc :
       isa_symbhw_init(i, name, garbage)
  \/ \E i \in Slots, name \in Ids : pci_symbhw_init(i, name)
  \/ \E i \in Slots : pci_symbhw_uninit(i)
  \/ \E garbage \in [Objs -> BOOLEAN] : SymbolicHardware_dtor(garbage)

Spec ==
  Init /\ [][Next]_vars

\* ------------------------------------------------------------------------
\* The bridge with the BAR mapping callback and the trap stubs, over device
\* lists that are accepted whole
\* ------------------------------------------------------------------------
IsaA ==
  IsaEntry(Val("a"), Val(768), Val(16), Val(7))

PciA ==
  PciEntry(Val("a"), Val(4660), Val(22136), Val(512), Val(1), Val(1),
           Val(<<MemRes>>))

PciB ==
  PciEntry(Val("b"), Val(32902), Val(4110), Val(131072), Val(2), Val(4),
           Val(<<IoRes, MemPrefetchRes>>))

\* an I/O resource whose entry also carries isPrefetchable = true
PciIoPrefetch ==
  PciEntry(Val("a"), Val(4660), Val(22136), Val(512), Val(1), Val(1),
           Val(<<IoPrefetchRes>>))

BridgeLists ==
  {Val(<<IsaA>>), Val(<<PciA>>), Val(<<PciB>>), Val(<<IsaA, PciB>>),
   Val(<<PciIoPrefetch>>)}

BridgeInit ==
  /\ cfg \in BridgeLists
  /\ RegistryInit
  /\ FactoryIdle

AllStubs ==
  MmioStubs \cup {PortStub(w, d) : w \in {1, 2, 4}, d \in {"read", "write"}}

BridgeNext ==
  \/ Next
  \/ \E i \in Slots, k \in 1..PciMaxResources, addr \in MapAddrs :
       pci_symbhw_map(i, k, addr)
  \/ \E i \in Slots, fn \in AllStubs : symbhw_trap(i, fn)

BridgeSpec ==
  BridgeInit /\ [][BridgeNext]_vars

\* ------------------------------------------------------------------------
\* The factory on its own: one configuration entry in, one result out
\* ------------------------------------------------------------------------
StartValues ==
  {NoInt, Val(0), Val(768), Val(65535), Val(65536)}

SizeValues ==
  {NoInt, Val(0), Val(1), Val(16), Val(65535), Val(65536), Val(65537)}

IrqValues ==
  {NoInt, Val(0), Val(7), Val(15), Val(16), Val(256), Val(263)}

IsaInputs ==
  {IsaEntry(Val("a"), s, z, q) : s \in StartValues, z \in SizeValues, q \in IrqValues}

AllResKeys ==
  {MemRes, MemPrefetchRes, IoRes, IoPrefetchRes, BadRes,
   ResKey(NoBool, Val(FALSE), Val(4096)), ResKey(Val(TRUE), NoBool, NoInt)}

LongResKeys ==
  {MemRes, IoRes, BadRes}

ResLists ==
  {NoList}
  \cup {Val(l) : l \in UNION {[1..n -> AllResKeys] : n \in 0..2}}
  \cup {Val(l) : l \in UNION {[1..n -> LongResKeys] : n \in 3..MaxResKeys}}

PciInputs ==
  {PciEntry(Val("a"), Val(4660), Val(22136), Val(512), Val(1), Val(1), r) :
     r \in ResLists}
  \cup
  {PciEntry(Val("a"), v, p, c, r, q, Val(<<IoRes, MemRes>>)) :
     v \in {NoInt, Val(4660), Val(65537)},
     p \in {NoInt, Val(22136)},
     c \in {NoInt, Val(512), Val(16777215), Val(16777216), Wide(1, 512),
            Wide(1, 16777215), Wide(1, 16777216)},
     r \in {NoInt, Val(1), Val(256)},
     q \in {NoInt, Val(0), Val(4), Val(5), Val(256)}}

FactoryInit ==
  /\ cfg = NoList
  /\ RegistryInit
  /\ entry \in IsaInputs \cup PciInputs
  /\ result = NULL
  /\ os = ""
  /\ fpc = "idle"

isa_create ==
  /\ fpc = "idle"
  /\ entry.type.v = "isa"
  /\ result' = IsaDeviceDescriptor_create(entry, 1)
  /\ fpc' = "done"
  /\ UNCHANGED <<entry, os, registryVars>>

pci_create ==
  /\ fpc = "idle"
  /\ entry.type.v = "pci"
  /\ result' = PciDeviceDescriptor_create(entry, 1)
  /\ fpc' = "done"
  /\ UNCHANGED <<entry, os, registryVars>>

\* operator<< of an unsigned value under std::hex: no padding, lower case
HexDigit(d) ==
  <<"0", "1", "2", "3", "4", "5", "6", "7", "8", "9", "a", "b", "c", "d",
    "e", "f">>[d + 1]

RECURSIVE Hex(_)
Hex(n) ==
  IF n < 16 THEN HexDigit(n) ELSE Hex(n \div 16) \o HexDigit(n % 16)

Bit(b) ==
  IF b THEN 1 ELSE 0

IsaDeviceDescriptor_print(d) ==
  "ISA Device Descriptor id=" \o d.m_id \o "\n"
  \o "Base=0x" \o Hex(d.m_isaResource.portBase)
  \o " Size=0x" \o Hex(d.m_isaResource.portSize) \o "\n"
  \o "\n"

\* the foreach2 loop of PciDeviceDescriptor::print from resource k on; i is
\* the local counter, which the loop body never advances
RECURSIVE PrintResources(_, _, _)
PrintResources(resources, k, i) ==
  IF k > Len(resources) THEN ""
  ELSE "R[" \o Hex(i) \o "]: "
       \o "Size=0x" \o Hex(resources[k].size)
       \o " IsIO=" \o Hex(Bit(resources[k].isIo))
       \o " IsPrefetchable=0x" \o Hex(Bit(resources[k].prefetchable)) \o "\n"
       \o PrintResources(resources, k + 1, i)

PciDeviceDescriptor_print(d) ==
  "PCI Device Descriptor id=" \o d.m_id \o "\n"
  \o "VID=0x" \o Hex(d.m_vid) \o " PID=0x" \o Hex(d.m_pid)
  \o " RevID=0x" \o Hex(d.m_revisionId) \o "\n"
  \o "Class=0x" \o Hex(d.m_classCode)
  \o " INT=0x" \o Hex(d.m_interruptPin) \o "\n"
  \o PrintResources(d.m_resources, 1, 0)
  \o "\n"

\* DeviceDescriptor::print, dispatched on the dynamic type
print(d) ==
  IF d.kind = "isa" THEN IsaDeviceDescriptor_print(d)
  ELSE PciDeviceDescriptor_print(d)

print_descriptor ==
  /\ fpc = "done"
  /\ result # NULL
  /\ os' = print(result)
  /\ fpc' = "printed"
  /\ UNCHANGED <<entry, result, registryVars>>

FactoryNext ==
  \/ isa_create
  \/ pci_create
  \/ print_descriptor

FactorySpec ==
  FactoryInit /\ [][FactoryNext]_vars

\* ------------------------------------------------------------------------
\* Properties
\* ------------------------------------------------------------------------
Started ==
  pc \in {"running", "crashed"}

EmptyList ==
  ~cfg.ok \/ cfg.v = <<>>

Keys ==
  1..Len(cfg.v)

Rejected ==
  {k \in Keys : DeviceDescriptor_create(cfg.v[k], k) = NULL}

FirstRejected ==
  CHOOSE k \in Rejected : \A j \in Rejected : k <= j

NoHostCall ==
  /\ \A k \in DOMAIN qdev : qdev[k] = 0
  /\ \A o \in Objs : initCount[o] = 0
  /\ \A i \in Slots : inst[i] = FreeInstance
  /\ io_mem_used = {}
  /\ ~badUnregister

\* C1: every uninit unregisters the MMIO handle its own instance's init
\* registered; once every PCI instance is uninitialised no handle is left
\* registered and none was unregistered twice.
C1_OwnHandleUnregistered ==
  /\ \A i \in Slots : inst[i].state = "dead" => inst[i].unreg = inst[i].handle
  /\ (\A i \in Slots : inst[i].bus = "pci" => inst[i].state = "dead")
       => (io_mem_used = {} /\ ~badUnregister)

\* C2: after either init entry point has run for an instance named n, the
\* instance's back-reference is findDevice(n), stored before any descriptor
\* field is read through it (so no init faults on an unset back-reference).
C2_BackReferenceResolved ==
  \A i \in Slots :
    /\ inst[i].state # "faulted"
    /\ inst[i].state \in {"inited", "dead"}
         => /\ inst[i].desc # NULL
            /\ inst[i].desc = findDevice(m_devices, inst[i].name)

\* C3: initialize succeeded on a non-empty list and the event fired once:
\* the subscription was made once, initializeQemuDevice ran exactly once on
\* every descriptor of the registry, and every configured type name is
\* registered with the host exactly once.  Before the event, never.
C3_RegisteredExactlyOnce ==
  (Started /\ ~EmptyList) =>
    /\ connected = 1
    /\ fired = 0 => \A o \in Objs : initCount[o] = 0
    /\ fired = 1 =>
         /\ \A d \in m_devices : initCount[d.obj] = 1
         /\ \A k \in Keys :
              qdev[<<"isa", cfg.v[k].id.v>>] + qdev[<<"pci", cfg.v[k].id.v>>] = 1

C3_Witness ==
  /\ pc = "running"
  /\ fired = 1
  /\ Cardinality(m_devices) = 2
  /\ \A d \in m_devices : initCount[d.obj] = 1 /\ qdev[<<d.kind, d.m_id>>] = 1

\* C4: a list with a rejected entry: initialize stops at the first rejected
\* entry (exit), never subscribes, and no host-facing call ever happens.
C4_RejectedListNeverTouchesHost ==
  (cfg.ok /\ Rejected # {}) =>
    /\ pc \in {"start", "loop", "exited"}
    /\ it <= FirstRejected
    /\ pc = "exited" => it = FirstRejected
    /\ connected = 0
    /\ fired = 0
    /\ NoHostCall

C4_Witness ==
  /\ pc = "exited"
  /\ it = 2
  /\ Cardinality(m_devices) = 1
  /\ connected = 0
  /\ NoHostCall

DuplicateIds ==
  \E j \in Keys, k \in Keys : j < k /\ cfg.v[j].id = cfg.v[k].id

\* C5: a list in which two entries carry the same id never lets initialize
\* complete start-up.
C5_DuplicateIdFatal ==
  (cfg.ok /\ DuplicateIds) => ~Started

\* C6: the registry holds at most one descriptor per id and at most one
\* descriptor is equivalent to any lookup key.
C6_OneDescriptorPerId ==
  \A id \in Ids :
    /\ Cardinality({d \in m_devices : d.m_id = id}) <= 1
    /\ Cardinality({d \in m_devices : Equivalent(d, [m_id |-> id])}) <= 1

C6_Witness ==
  /\ pc = "running"
  /\ Cardinality(built) = 2
  /\ \A d1 \in built, d2 \in built : d1.m_id = d2.m_id
  /\ Cardinality(m_devices) = 1

Carriers(id) ==
  {k \in Keys : cfg.v[k].id = Val(id)}

C7_Lookup ==
  Started =>
    \A id \in Ids :
      LET r == findDevice(m_devices, id)
      IN  IF Carriers(id) = {}
            THEN r = NULL
            ELSE /\ r \in m_devices
                 /\ r.m_id = id
                 /\ r.obj \in Carriers(id)
                 /\ r = DeviceDescriptor_create(cfg.v[r.obj], r.obj)

\* C7: once start-up is complete findDevice(id) is the descriptor object the
\* factory built for an entry carrying id, NULL when no entry carries it, and
\* the init entry point that calls it leaves the registry as it was.
C7_FindDeviceExact ==
  /\ []C7_Lookup
  /\ [][(\E i \in Slots, name \in Ids : pci_symbhw_init(i, name))
          => m_devices' = m_devices]_vars

C7_Witness ==
  /\ pc = "running"
  /\ \E id \in Ids : findDevice(m_devices, id) = NULL
  /\ \E i \in Slots :
       /\ inst[i].state = "inited"
       /\ inst[i].bus = "pci"
       /\ inst[i].desc = findDevice(m_devices, inst[i].name)
       /\ inst[i].desc.obj \in Carriers(inst[i].name)

\* C8 as stated: an empty or unreadable device list is fatal, initialize
\* never returns to let the machine start.
C8_EmptyListFatal ==
  EmptyList => ~Started

\* C8 as amended: on an empty or unreadable device list initialize returns
\* with an empty registry and without subscribing; the machine starts
\* without symbolic hardware and no device ever reaches the host.
C8_EmptyListStartsWithoutHardware ==
  EmptyList =>
    /\ pc \in {"start", "running", "destroyed"}
    /\ built = {}
    /\ m_devices = {}
    /\ connected = 0
    /\ NoHostCall

C8_Witness ==
  /\ EmptyList
  /\ pc = "running"
  /\ fired = 1
  /\ connected = 0

IsaConfigValid(e) ==
  /\ e.start.ok /\ e.size.ok /\ e.irq.ok
  /\ e.start.v <= IsaMaxPortBase
  /\ e.size.v < UInt16
  /\ e.start.v + e.size.v <= IsaPortSpace
  /\ e.irq.v <= IsaMaxIrq

\* C9: IsaDeviceDescriptor::create returns a descriptor exactly for the
\* entries whose configured start, size and irq (before narrowing) are in
\* range, and the descriptor carries the configured values.
C9_IsaCreateValidates ==
  (fpc = "done" /\ entry.type.v = "isa") =>
    /\ result # NULL <=> IsaConfigValid(entry)
    /\ result # NULL =>
         /\ result.m_isaResource.portBase = entry.start.v
         /\ result.m_isaResource.portSize = entry.size.v
         /\ result.m_isaResource.irq = entry.irq.v
         /\ result.m_isaResource.portBase + result.m_isaResource.portSize
              <= IsaPortSpace
         /\ result.m_isaResource.irq <= IsaMaxIrq

PciScalarsValid(e) ==
  /\ e.vid.ok /\ e.vid.v < UInt16
  /\ e.pid.ok /\ e.pid.v < UInt16
  /\ e.classCode.ok /\ e.classCode.v <= PciMaxClassCode
  /\ HighLimb(e.classCode) = 0
  /\ e.revisionId.ok /\ e.revisionId.v < UInt8
  /\ e.interruptPin.ok /\ e.interruptPin.v <= PciMaxInterruptPin

ResKeyValid(rk) ==
  /\ rk.isIo.ok
  /\ rk.isIo.v \/ rk.isPrefetchable.ok
  /\ rk.size.ok

\* C10: with valid scalar fields PciDeviceDescriptor::create succeeds exactly
\* when the resources list has 1 to 6 entries, each valid, and the
\* descriptor's resources are the configured ones in declaration order.
C10_PciResourceCount ==
  (fpc = "done" /\ entry.type.v = "pci" /\ PciScalarsValid(entry)) =>
    LET keys == entry.resources.v
    IN  /\ result # NULL <=>
             /\ entry.resources.ok
             /\ Len(keys) >= 1
             /\ Len(keys) <= 6
             /\ \A k \in 1..Len(keys) : ResKeyValid(keys[k])
        /\ result # NULL =>
             /\ Len(result.m_resources) = Len(keys)
             /\ \A k \in 1..Len(keys) :
                  /\ result.m_resources[k].isIo = keys[k].isIo.v
                  /\ result.m_resources[k].prefetchable = keys[k].isPrefetchable.v
                  /\ result.m_resources[k].size = keys[k].size.v

C10_Witness ==
  /\ fpc = "done"
  /\ entry.type.v = "pci"
  /\ PciScalarsValid(entry)
  /\ result # NULL
  /\ Len(result.m_resources) = 6
  /\ result.m_resources[1] # result.m_resources[2]

PciOtherFieldsValid(e) ==
  /\ e.vid.ok /\ e.vid.v < UInt16
  /\ e.pid.ok /\ e.pid.v < UInt16
  /\ e.revisionId.ok /\ e.revisionId.v < UInt8
  /\ e.interruptPin.ok /\ e.interruptPin.v <= PciMaxInterruptPin
  /\ e.resources.ok
  /\ Len(e.resources.v) \in 1..PciMaxResources
  /\ \A k \in 1..Len(e.resources.v) : ResKeyValid(e.resources.v[k])

\* C11: PciDeviceDescriptor::create fails for every configured classCode
\* above 0xFFFFFF (the integer read, before it is narrowed to 32 bits) and,
\* the other fields valid, succeeds for 0xFFFFFF and stores exactly it.
C11_ClassCodeBound ==
  (fpc = "done" /\ entry.type.v = "pci" /\ entry.classCode.ok) =>
    /\ (HighLimb(entry.classCode) > 0 \/ entry.classCode.v > PciMaxClassCode)
         => result = NULL
    /\ (PciOtherFieldsValid(entry) /\ entry.classCode = Val(PciMaxClassCode))
         => (result # NULL /\ result.m_classCode = PciMaxClassCode)

\* C12: after pci_symbhw_init has returned for an instance, the instance's
\* configuration space carries the descriptor's vendor id, device id, class
\* code, revision id and interrupt pin.
C12_ConfigSpaceMatches ==
  \A i \in Slots :
    (inst[i].bus = "pci" /\ inst[i].state = "inited") =>
      LET c == inst[i].config
          d == inst[i].desc
      IN  /\ c.vendor_id = d.m_vid
          /\ c.device_id = d.m_pid
          /\ c.class = d.m_classCode
          /\ c.interrupt_pin = d.m_interruptPin
          /\ "revision_id" \in DOMAIN c
          /\ c.revision_id = d.m_revisionId

\* C13: after isa_symbhw_init has returned for an instance, reads and writes
\* of widths 1, 2 and 4 over the port range of the descriptor registered
\* under the instance's type name are routed to the stubs, and the irq
\* attached is that descriptor's.
C13_IsaRoutingMatches ==
  \A i \in Slots :
    (inst[i].bus = "isa" /\ inst[i].state = "inited") =>
      LET d == findDevice(m_devices, inst[i].name)
      IN  /\ d # NULL
          /\ d.kind = "isa"
          /\ inst[i].ioports = register_ioports(d.m_isaResource.portBase,
                                                d.m_isaResource.portSize)
          /\ inst[i].irq = d.m_isaResource.irq

\* C14: once initialize has returned, no callback (registration event, ISA
\* and PCI init, PCI uninit, BAR mapping, trap stubs) changes the descriptor
\* set or any configured field of a descriptor the factory built.
C14_DescriptorsReadOnly ==
  [][Started => (m_devices' = m_devices /\ built' = built)]_vars

\* a run in which every kind of callback has acted: the event fired, one PCI
\* instance was torn down, another is live with a placed BAR, a stub ran
C14_Witness ==
  /\ pc = "running"
  /\ fired > 0
  /\ m_devices # {}
  /\ \E i \in Slots : inst[i].state = "dead"
  /\ \E i \in Slots :
       /\ inst[i].state = "inited"
       /\ \E k \in DOMAIN inst[i].mapped : inst[i].mapped[k].addr # -1
  /\ debugLines > 0

\* C16: after pci_symbhw_init has returned for a descriptor with resources
\* r_0 .. r_(n-1), exactly n BARs are registered; the BAR at index k has
\* size r_k.size, is of I/O type exactly when r_k.isIo, and is bound to the
\* mapping callback, so declaration order is BAR index order.
C16_BarsFollowResources ==
  \A i \in Slots :
    (inst[i].bus = "pci" /\ inst[i].state = "inited") =>
      LET r == inst[i].desc.m_resources
          b == inst[i].bars
      IN  /\ inst[i].desc = findDevice(m_devices, inst[i].name)
          /\ Len(b) = Len(r)
          /\ \A k \in 1..Len(r) :
               /\ b[k].region_num = k - 1
               /\ b[k].size = r[k].size
               /\ (BitAnd(b[k].type, PCI_BASE_ADDRESS_SPACE_IO) # 0) <=> r[k].isIo
               /\ b[k].map_func = "pci_symbhw_map"

\* an instance of a type with an I/O resource declared before a memory one
C16_Witness ==
  \E i \in Slots :
    /\ inst[i].bus = "pci"
    /\ inst[i].state = "inited"
    /\ Len(inst[i].desc.m_resources) = 2
    /\ inst[i].desc.m_resources[1].isIo
    /\ ~inst[i].desc.m_resources[2].isIo
    /\ inst[i].desc.m_resources[1].size # inst[i].desc.m_resources[2].size
    /\ Len(inst[i].bars) = 2

\* C17: when pci_symbhw_map has returned for a BAR, the range it was given
\* is routed to the trap handlers: to the port stubs at widths 1, 2 and 4
\* when the type denotes I/O space, to the instance's MMIO handle when the
\* type denotes memory space (I/O bit clear); a relocation routes the new
\* range.
C17_MappedRangeRouted ==
  \A i \in Slots :
    (inst[i].bus = "pci" /\ inst[i].state = "inited") =>
      \A k \in DOMAIN inst[i].mapped :
        LET b == inst[i].bars[k]
            mp == inst[i].mapped[k]
        IN  mp.addr # -1 =>
              IF BitAnd(b.type, PCI_BASE_ADDRESS_SPACE_IO) # 0
                THEN mp.pio = register_ioports(mp.addr, b.size)
                ELSE mp.mmio = inst[i].handle

\* C19: the handle pci_symbhw_uninit reads from the shared descriptor, and
\* the one pci_symbhw_map reads when it maps a memory-type BAR, is registered
\* with the host at that moment, for every interleaving of init, map and
\* uninit over the instances of one type.
C19_SharedHandleRegistered ==
  /\ ~badUnregister
  /\ \A i \in Slots : \A k \in DOMAIN inst[i].mapped : inst[i].mapped[k].live

\* C18: the type record PciDeviceDescriptor::initializeQemuDevice hands to
\* pci_qdev_register refers to the save/restore schema built for the
\* descriptor (non-null, named with the descriptor id, carrying the field
\* list), and binds both the init and the uninit entry point.
C18_RecordCarriesSchema ==
  \A r \in typeRecords :
    r.bus = "pci" =>
      /\ r.init = "pci_symbhw_init"
      /\ r.exit = "pci_symbhw_uninit"
      /\ r.vmsd # NULL
      /\ r.vmsd.name = r.name
      /\ r.vmsd.fields # "NULL"

\* C20: when the registry is torn down, every host-side record a descriptor
\* the factory built has allocated is released exactly once, and no record
\* that was never allocated is released.
C20_RecordsReleasedOnce ==
  pc = "destroyed" =>
    /\ ~wildFree
    /\ \A d \in built : released[d.obj] = Allocated(d, initCount[d.obj])

\* descriptors that differ from d in exactly one numeric field
OneFieldAway(d) ==
  IF d.kind = "isa"
    THEN {[d EXCEPT !.m_isaResource.portBase = (@ + 1) % UInt16],
          [d EXCEPT !.m_isaResource.portSize = (@ + 1) % UInt16],
          [d EXCEPT !.m_isaResource.irq = (@ + 1) % UInt8]}
    ELSE {[d EXCEPT !.m_vid = @ + 1],
          [d EXCEPT !.m_pid = @ + 1],
          [d EXCEPT !.m_revisionId = @ + 1],
          [d EXCEPT !.m_classCode = @ + 1],
          [d EXCEPT !.m_interruptPin = @ + 1]}
         \cup {[d EXCEPT !.m_resources[k].size = @ + 1] :
                 k \in 1..Len(d.m_resources)}
         \cup {[d EXCEPT !.m_resources[k].isIo = ~@] :
                 k \in 1..Len(d.m_resources)}
         \cup {[d EXCEPT !.m_resources[k].prefetchable = ~@] :
                 k \in 1..Len(d.m_resources)}

\* C15: the output of print() carries the id and every numeric field of the
\* descriptor (ISA: portBase, portSize, irq; PCI: vid, pid, revisionId,
\* classCode, interruptPin and each resource's index, size and flags) so that
\* two descriptors differing in any field print differently.
C15_PrintDistinguishes ==
  fpc = "printed" => \A d \in OneFieldAway(result) : print(d) # os

\* C21: no BAR is registered by pci_symbhw_init with both the I/O-space type
\* and the prefetchable flag set; the prefetchable attribute reaches the host
\* only for memory-type resources, whatever isPrefetchable is on an isIo one.
C21_NoPrefetchableIoBar ==
  \A i \in Slots :
    (inst[i].bus = "pci" /\ inst[i].state \in {"inited", "dead"}) =>
      \A k \in DOMAIN inst[i].bars :
        ~(/\ BitAnd(inst[i].bars[k].type, PCI_BASE_ADDRESS_SPACE_IO) # 0
          /\ BitAnd(inst[i].bars[k].type, PCI_BASE_ADDRESS_MEM_PREFETCH) # 0)

====
